---- MODULE Spec2Model ----
(***************************************************************************)
(* Model of the bulk image converter (src/app.py): the in-memory result    *)
(* store converted_images, the per-caller session cookie, and the three    *)
(* request handlers convert_bulk_images, download_single_image and         *)
(* download_zip.  converted_images is the store, session the binding in   *)
(* each caller's cookie, threads the POST /convert requests whose handler  *)
(* is running or has run (by batch id), request and response the last      *)
(* exchange, zip_log a history of the archives served.                     *)
(*                                                                         *)
(* Python strings are sequences of one-character strings, so that          *)
(* upper(), lower(), rsplit(), splitext() and secure_filename() are        *)
(* computed rather than assumed.                                           *)
(***************************************************************************)
EXTENDS Integers, Sequences, FiniteSets, TLC

VARIABLES converted_images, session, uuid_count, request, response, zip_log, threads

vars == <<converted_images, session, uuid_count, request, response, zip_log, threads>>

(***************************************************************************)
(* Bounds of the model.                                                    *)
(***************************************************************************)
\* Largest number of file parts in one POST /convert.
MaxFiles == 2
\* Number of uuid4() values the process may draw in one behaviour.
MaxUuid == 4

(***************************************************************************)
(* Python string primitives.                                               *)
(***************************************************************************)
LowerAlpha == <<"a","b","c","d","e","f","g","h","i","j","k","l","m",
                "n","o","p","q","r","s","t","u","v","w","x","y","z">>
UpperAlpha == <<"A","B","C","D","E","F","G","H","I","J","K","L","M",
                "N","O","P","Q","R","S","T","U","V","W","X","Y","Z">>
Digits == <<"0","1","2","3","4","5","6","7","8","9">>

Range(s) == { s[i] : i \in 1..Len(s) }

LowerLetters == Range(LowerAlpha)
UpperLetters == Range(UpperAlpha)

\* str.rfind(c), 1-based, 0 when absent.
RFind(s, c) ==
    IF \E i \in 1..Len(s) : s[i] = c
    THEN CHOOSE i \in 1..Len(s) : s[i] = c /\ \A j \in (i+1)..Len(s) : s[j] # c
    ELSE 0

\* The upper-case (lower-case) form of one character: the letter at the same
\* place of the other alphabet; other characters are kept.
ToUpper == [c \in LowerLetters |->
               UpperAlpha[CHOOSE i \in 1..Len(LowerAlpha) : LowerAlpha[i] = c]]
ToLower == [c \in UpperLetters |->
               LowerAlpha[CHOOSE i \in 1..Len(UpperAlpha) : UpperAlpha[i] = c]]
UpperChar(c) == IF c \in LowerLetters THEN ToUpper[c] ELSE c
LowerChar(c) == IF c \in UpperLetters THEN ToLower[c] ELSE c

\* str.upper() and str.lower().
Upper(s) == [i \in 1..Len(s) |-> UpperChar(s[i])]
Lower(s) == [i \in 1..Len(s) |-> LowerChar(s[i])]

\* s with the characters satisfying no keep-test removed.
RECURSIVE FilterChars(_, _)
FilterChars(s, keep) ==
    IF s = <<>> THEN <<>>
    ELSE IF Head(s) \in keep THEN <<Head(s)>> \o FilterChars(Tail(s), keep)
         ELSE FilterChars(Tail(s), keep)

\* str.strip(chars): leading and trailing characters of the set removed.
RECURSIVE LStrip(_, _)
LStrip(s, chars) ==
    IF s # <<>> /\ Head(s) \in chars THEN LStrip(Tail(s), chars) ELSE s
RECURSIVE RStrip(_, _)
RStrip(s, chars) ==
    IF s # <<>> /\ s[Len(s)] \in chars THEN RStrip(SubSeq(s, 1, Len(s) - 1), chars) ELSE s
Strip(s, chars) == RStrip(LStrip(s, chars), chars)

\* "_".join(s.split()): runs of blanks become one "_", outer blanks vanish.
RECURSIVE JoinWords(_, _)
JoinWords(s, pending) ==
    IF s = <<>> THEN <<>>
    ELSE IF Head(s) = " " THEN JoinWords(Tail(s), TRUE)
         ELSE (IF pending THEN <<"_">> ELSE <<>>) \o <<Head(s)>> \o JoinWords(Tail(s), FALSE)
SplitJoin(s) == JoinWords(LStrip(s, {" "}), FALSE)

(***************************************************************************)
(* String literals of the program.                                         *)
(***************************************************************************)
EmptyStr == <<>>
S_png == <<"p","n","g">>
S_jpg == <<"j","p","g">>
S_jpeg == <<"j","p","e","g">>
S_webp == <<"w","e","b","p">>
S_avif == <<"a","v","i","f">>
S_JPEG == <<"J","P","E","G">>
S_JPG == <<"J","P","G">>
S_PNG == <<"P","N","G">>
S_WEBP == <<"W","E","B","P">>
S_AVIF == <<"A","V","I","F">>
S_image == <<"i","m","a","g","e","/">>
S_converted == <<"_","c","o","n","v","e","r","t","e","d">>

ALLOWED_EXTENSIONS == {S_png, S_jpg, S_jpeg, S_webp, S_avif}
ALLOWED_MIME_TYPES == {S_image \o S_png, S_image \o S_jpeg, S_image \o S_jpg,
                       S_image \o S_webp, S_image \o S_avif}

SUPPORTED_FORMATS == {S_JPEG, S_JPG, S_PNG, S_WEBP, S_AVIF}

\* Variant of allowed_file that does not look at the content type.
allowed_file_AnyType(filename, content_type) ==
    /\ "." \in Range(filename)
    /\ Lower(SubSeq(filename, RFind(filename, ".") + 1, Len(filename))) \in ALLOWED_EXTENSIONS

\* allowed_file(filename, content_type)
allowed_file(filename, content_type) ==
    /\ "." \in Range(filename)
    /\ Lower(SubSeq(filename, RFind(filename, ".") + 1, Len(filename))) \in ALLOWED_EXTENSIONS
    /\ content_type \in ALLOWED_MIME_TYPES

\* get_file_extension(format_type): format_map.get(format_type.upper(), '.jpg')
get_file_extension(format_type) ==
    LET f == Upper(format_type) IN
    IF f = S_JPEG THEN <<".">> \o S_jpg
    ELSE IF f = S_JPG THEN <<".">> \o S_jpg
    ELSE IF f = S_PNG THEN <<".">> \o S_png
    ELSE IF f = S_WEBP THEN <<".">> \o S_webp
    ELSE IF f = S_AVIF THEN <<".">> \o S_avif
    ELSE <<".">> \o S_jpg

\* werkzeug.utils.secure_filename: path separators become blanks, blank runs
\* become "_", characters outside [A-Za-z0-9_.-] are dropped, and leading and
\* trailing "." and "_" are stripped.
SafeChars == LowerLetters \cup UpperLetters \cup Range(Digits) \cup {"_", ".", "-"}
secure_filename(filename) ==
    LET spaced == [i \in 1..Len(filename) |-> IF filename[i] = "/" THEN " " ELSE filename[i]]
    IN  Strip(FilterChars(SplitJoin(spaced), SafeChars), {".", "_"})

\* os.path.splitext(p)[0]: the part before the last dot, unless every character
\* before that dot is a dot too (then p has no extension).
splitext_root(p) ==
    LET dot == RFind(p, ".") IN
    IF dot > 0 /\ \E i \in 1..(dot - 1) : p[i] # "."
    THEN SubSeq(p, 1, dot - 1)
    ELSE p

(***************************************************************************)
(* The image codec (PIL).  An upload's bytes either decode to an image     *)
(* (mode and pixels) or are not an image at all.  A pixel is a colour and  *)
(* an alpha value; modes without an alpha band carry alpha 255.            *)
(***************************************************************************)
White == "white"
Opaque == 255

AlphaModes == {"RGBA", "LA", "P"}

\* Image.open(io.BytesIO(file_data)): the image, or the exception's text.
ImageOpen(file_data) ==
    IF file_data.kind = "image"
    THEN [raised |-> FALSE, image |-> file_data.image]
    ELSE [raised |-> TRUE, error |-> "cannot identify image file"]

\* image.convert('RGBA') of a palette image: palette entries with their
\* transparency become colour and alpha.
ConvertRGBA(image) == [mode |-> "RGBA", px |-> image.px]

\* background.paste(image, mask): under the alpha mask a pixel of alpha 0
\* keeps the background, one of alpha 255 takes the source colour; without a
\* mask every pixel takes the source colour.  The result is mode RGB.
Paste(image, useMask) ==
    [mode |-> "RGB",
     px |-> [i \in 1..Len(image.px) |->
                IF useMask /\ image.px[i].a = 0
                THEN [c |-> White, a |-> Opaque]
                ELSE [c |-> image.px[i].c, a |-> Opaque]]]

\* Lines 52-58: the JPEG branch composites over a white background.
Composite(image, output_format) ==
    IF output_format \in {S_JPEG, S_JPG} /\ image.mode \in AlphaModes
    THEN LET img == IF image.mode = "P" THEN ConvertRGBA(image) ELSE image
         IN  Paste(img, img.mode = "RGBA")
    ELSE image

\* Lines 63-78: the encoder's format name.
FormatName(output_format) ==
    IF output_format \in {S_JPEG, S_JPG} THEN S_JPEG
    ELSE IF output_format = S_PNG THEN S_PNG
    ELSE IF output_format = S_WEBP THEN S_WEBP
    ELSE IF output_format = S_AVIF THEN S_AVIF
    ELSE S_JPEG

\* image.save(buffer, format=...): the JPEG encoder refuses modes with an
\* alpha band or a palette; the other encoders take every mode.
ImageSave(image, format_name) ==
    IF format_name = S_JPEG /\ image.mode \in AlphaModes
    THEN [raised |-> TRUE, error |-> "cannot write mode as JPEG"]
    ELSE [raised |-> FALSE, bytes |-> [format |-> format_name, image |-> image]]

\* Variant of Mimetype that keeps the name jpg.
Mimetype_Plain(output_format) == S_image \o Lower(output_format)

\* Line 102.
Mimetype(output_format) ==
    S_image \o (IF Lower(output_format) # S_jpg THEN Lower(output_format) ELSE S_jpeg)

\* Lines 84-87.
NewFilename(original_filename, output_format) ==
    splitext_root(secure_filename(original_filename))
        \o S_converted \o get_file_extension(output_format)

\* convert_single_image(file_data, output_format, original_filename): every
\* exception of the body is caught and becomes a failure result.
convert_single_image(file_data, output_format, original_filename) ==
    LET opened == ImageOpen(file_data) IN
    IF opened.raised
    THEN [success |-> FALSE, error |-> opened.error, filename |-> original_filename]
    ELSE
    LET image == Composite(opened.image, output_format)
        saved == ImageSave(image, FormatName(output_format))
    IN
    IF saved.raised
    THEN [success |-> FALSE, error |-> saved.error, filename |-> original_filename]
    ELSE
    LET preview == ImageSave(image, S_JPEG) IN
    IF preview.raised
    THEN [success |-> FALSE, error |-> preview.error, filename |-> original_filename]
    ELSE [success |-> TRUE,
          filename |-> NewFilename(original_filename, output_format),
          data |-> saved.bytes,
          preview |-> preview.bytes,
          mimetype |-> Mimetype(output_format)]

(***************************************************************************)
(* Inputs of the model: callers, uploaded file parts, form values.         *)
(***************************************************************************)
Callers == {"c1", "c2"}

\* session.get('current_conversion') of a session that holds no binding.
None == 0
\* A form without a format field.
Absent == [present |-> FALSE, value |-> <<>>]
FormValue(v) == [present |-> TRUE, value |-> v]

Pixel(c, a) == [c |-> c, a |-> a]
ImageBytes(mode, px) == [kind |-> "image", image |-> [mode |-> mode, px |-> px]]
Garbage == [kind |-> "garbage"]

FilePart(filename, content_type, data) ==
    [filename |-> filename, content_type |-> content_type, data |-> data]

\* The file parts a request may carry: two images whose converted names
\* collide, a corrupt image, a disallowed type and a part without a filename.
FileParts ==
    { FilePart(<<"a",".","p","n","g">>, S_image \o S_png,
               ImageBytes("RGB", <<Pixel("red", Opaque)>>)),
      FilePart(<<"/","a",".","J","P","G">>, S_image \o S_jpeg,
               ImageBytes("RGB", <<Pixel("blue", Opaque)>>)),
      FilePart(<<"b",".","p","n","g">>, S_image \o S_png, Garbage),
      FilePart(<<"c",".","t","x","t">>, <<"t","e","x","t">>, Garbage),
      FilePart(EmptyStr, S_image \o S_png, Garbage) }

\* Values of the form's format field.
FormFormats == { FormValue(S_png), FormValue(<<"g","i","f">>), Absent }

\* A wider range of file parts for single requests: images of every source
\* mode with transparent and opaque pixels, an upper-case extension, parts
\* the allow-list rejects for their content type or for their filename
\* although their bytes are an image, and a corrupt image.
WideFileParts ==
    { FilePart(<<"r",".","p","n","g">>, S_image \o S_png,
               ImageBytes("RGB", <<Pixel("red", Opaque)>>)),
      FilePart(<<"t",".","p","n","g">>, S_image \o S_png,
               ImageBytes("RGBA", <<Pixel("red", 0), Pixel("blue", Opaque)>>)),
      FilePart(<<"l",".","p","n","g">>, S_image \o S_png,
               ImageBytes("LA", <<Pixel("black", 0), Pixel("grey", Opaque)>>)),
      FilePart(<<"p",".","p","n","g">>, S_image \o S_png,
               ImageBytes("P", <<Pixel("green", 0), Pixel("red", Opaque)>>)),
      FilePart(<<"g",".","w","e","b","p">>, S_image \o S_webp,
               ImageBytes("L", <<Pixel("grey", Opaque)>>)),
      FilePart(<<"U",".","P","N","G">>, S_image \o S_jpg,
               ImageBytes("RGB", <<Pixel("blue", Opaque)>>)),
      FilePart(<<"d",".","p","n","g">>, <<"t","e","x","t">>,
               ImageBytes("RGB", <<Pixel("red", Opaque)>>)),
      FilePart(<<"e",".","g","i","f">>, S_image \o S_png,
               ImageBytes("RGB", <<Pixel("red", Opaque)>>)),
      FilePart(<<"n","o","e","x","t">>, S_image \o S_png,
               ImageBytes("RGB", <<Pixel("red", Opaque)>>)),
      FilePart(<<"x",".","p","n","g">>, S_image \o S_png, Garbage) }

\* Every supported format name, names in lower and mixed case, an unknown
\* name, an empty value and a form without the field.
WideFormats ==
    { FormValue(f) : f \in SUPPORTED_FORMATS }
       \cup { FormValue(S_jpg), FormValue(<<"W","e","b","p">>),
              FormValue(<<"g","i","f">>), FormValue(EmptyStr), Absent }

AllFileParts == FileParts \cup WideFileParts

(***************************************************************************)
(* uuid.uuid4(): the n-th value drawn by the process differs from all      *)
(* earlier ones.                                                           *)
(***************************************************************************)
\* Variant of uuid4 that draws the same value every time.
uuid4_Repeat(count) == 1

uuid4(count) == count + 1

(***************************************************************************)
(* POST /convert (convert_bulk_images).                                    *)
(***************************************************************************)
FailureRecord(filename, error) ==
    [success |-> FALSE, original_filename |-> filename, error |-> error]

InvalidType == "Invalid file type. Only AVIF, PNG, JPG, JPEG, and WebP are allowed."

\* Variant of AppendImage whose success record names the upload, not the
\* stored file.
AppendImage_OriginalName(acc, file, result) ==
    LET image_id == uuid4(acc.uuid) IN
    [images |-> Append(acc.images,
                       [id |-> image_id,
                        filename |-> result.filename,
                        data |-> result.data,
                        mimetype |-> result.mimetype]),
     results |-> Append(acc.results,
                        [success |-> TRUE,
                         original_filename |-> file.filename,
                         converted_filename |-> file.filename,
                         preview |-> result.preview,
                         download_id |-> image_id]),
     successful_conversions |-> acc.successful_conversions + 1,
     uuid |-> image_id,
     calls |-> acc.calls]

\* Lines 150-168: a successful conversion mints an image id, stores the
\* image in the batch and adds a success record.  acc holds the batch's
\* stored images, the results list, the success counter, the uuid counter and
\* the filenames convert_single_image was called with so far.
AppendImage(acc, file, result) ==
    LET image_id == uuid4(acc.uuid) IN
    [images |-> Append(acc.images,
                       [id |-> image_id,
                        filename |-> result.filename,
                        data |-> result.data,
                        mimetype |-> result.mimetype]),
     results |-> Append(acc.results,
                        [success |-> TRUE,
                         original_filename |-> file.filename,
                         converted_filename |-> result.filename,
                         preview |-> result.preview,
                         download_id |-> image_id]),
     successful_conversions |-> acc.successful_conversions + 1,
     uuid |-> image_id,
     calls |-> acc.calls]

\* Variant of AppendFailure that reports nothing for a failed item.
AppendFailure_Silent(acc, filename, error) == acc

\* Lines 170-174 and 176-180: a failure adds a failure record only.
AppendFailure(acc, filename, error) ==
    [acc EXCEPT !.results = Append(@, FailureRecord(filename, error))]

\* The calls of lines 145 and 148 for every file part and format of the
\* model, evaluated once.
AllowedParts == [file \in AllFileParts |-> allowed_file(file.filename, file.content_type)]
ConvertedParts ==
    [file \in AllFileParts, output_format \in SUPPORTED_FORMATS |->
        convert_single_image(file.data, output_format, file.filename)]

\* One iteration of the loop of lines 143-180.
ProcessFile(acc, file, output_format) ==
    IF file.filename # EmptyStr
    THEN IF AllowedParts[file]
         THEN LET result == ConvertedParts[file, output_format]
                  called == [acc EXCEPT !.calls = Append(@, file.filename)]
              IN  IF result.success
                  THEN AppendImage(called, file, result)
                  ELSE AppendFailure(called, file.filename, result.error)
         ELSE AppendFailure(acc, file.filename, InvalidType)
    ELSE acc

\* Variant of RequestError without the check of the format (lines 131-133).
RequestError_NoFormatCheck(files, format) ==
    IF Len(files) = 0 THEN "No files uploaded"
    ELSE IF files = <<>> THEN "No files selected"
    ELSE ""

\* Variant of ProcessFiles in which the first failed item ends the loop.
RECURSIVE ProcessFiles_StopAtFailure(_, _, _)
ProcessFiles_StopAtFailure(acc, files, output_format) ==
    IF files = <<>> THEN acc
    ELSE LET next == ProcessFile(acc, Head(files), output_format) IN
         IF Len(next.results) > Len(acc.results) /\ ~next.results[Len(next.results)].success
         THEN next
         ELSE ProcessFiles_StopAtFailure(next, Tail(files), output_format)

\* Lines 140-141: the loop's variables before the first iteration; first_uuid
\* is the number of uuids drawn so far.
EmptyAcc(first_uuid) ==
    [images |-> <<>>, results |-> <<>>, successful_conversions |-> 0,
     uuid |-> first_uuid, calls |-> <<>>]

\* The whole loop over files, in input order.
RECURSIVE ProcessFiles(_, _, _)
ProcessFiles(acc, files, output_format) ==
    IF files = <<>> THEN acc
    ELSE ProcessFiles(ProcessFile(acc, Head(files), output_format), Tail(files), output_format)

\* request.form.get('format', 'JPEG').upper()
OutputFormat(format) == Upper(IF format.present THEN format.value ELSE S_JPEG)

\* Lines 119-133: the request-level checks; the error message, or "" when the
\* request is well formed.  'files' is a key of request.files exactly when
\* the form carries at least one file part.
RequestError(files, format) ==
    IF Len(files) = 0 THEN "No files uploaded"
    ELSE IF files = <<>> THEN "No files selected"
    ELSE IF OutputFormat(format) \notin SUPPORTED_FORMATS THEN "Invalid output format"
    ELSE ""

ErrorResponse(status, error) == [status |-> status, error |-> error]

\* Variant of BatchId that keeps the batch id the caller is already bound to.
BatchId_Reuse(caller) ==
    IF session[caller] # None THEN session[caller] ELSE uuid4(uuid_count)

\* Line 136: the id of the new batch, a uuid drawn for this request.
BatchId(caller) == uuid4(uuid_count)

\* Variant of StoreWithBatch that caps the store at two batches, discarding
\* the oldest ones.
StoreWithBatch_Capped(session_id, images) ==
    LET old == DOMAIN converted_images \ {session_id}
        kept == { b \in old : \A c \in old : c <= b }
    IN  [b \in kept \cup {session_id} |->
            IF b = session_id THEN images ELSE converted_images[b]]

\* Variant of StoreWithBatch that keeps the new batch only.
StoreWithBatch_Only(session_id, images) == [b \in {session_id} |-> images]

\* Lines 138 and 153: the store with the batch session_id holding images; the
\* other batches are untouched.
StoreWithBatch(session_id, images) ==
    [b \in DOMAIN converted_images \cup {session_id} |->
        IF b = session_id THEN images ELSE converted_images[b]]

Convert(caller, files, format) ==
    /\ request' = [op |-> "convert", caller |-> caller, files |-> files,
                   format |-> format, image_id |-> 0]
    /\ IF RequestError(files, format) # ""
       THEN /\ response' = ErrorResponse(400, RequestError(files, format))
            /\ UNCHANGED <<converted_images, session, uuid_count, zip_log, threads>>
       ELSE LET output_format == OutputFormat(format)
                session_id == BatchId(caller)
                done == ProcessFiles(EmptyAcc(uuid4(uuid_count)), files, output_format)
            IN  /\ session' = [session EXCEPT ![caller] = session_id]
                /\ converted_images' = StoreWithBatch(session_id, done.images)
                /\ uuid_count' = done.uuid
                /\ response' = [status |-> 200,
                                session_id |-> session_id,
                                total_files |-> Len(files),
                                successful_conversions |-> done.successful_conversions,
                                results |-> done.results]
                /\ UNCHANGED <<zip_log, threads>>

(***************************************************************************)
(* GET /download/<image_id> (download_single_image).                       *)
(***************************************************************************)
\* Variant of NoSession without the test that the store holds the batch.
NoSession_Unchecked(session_id) == session_id = None

\* Lines 196-197: the caller's bound batch id, usable only if it is a key of
\* the store.
NoSession(session_id) == session_id = None \/ session_id \notin DOMAIN converted_images

\* A lookup converted_images[session_id] of a missing key raises KeyError,
\* which the handler's except clause turns into a 500 (lines 218-219, 252-253).

\* Variant of FindImage that looks the id up in every batch of the store.
FindImage_AnyBatch(images, image_id) ==
    LET hits == { <<b, i>> \in (DOMAIN converted_images) \X (1..(MaxFiles + 1)) :
                    /\ i <= Len(converted_images[b])
                    /\ converted_images[b][i].id = image_id } IN
    IF hits = {} THEN <<>>
    ELSE LET h == CHOOSE x \in hits : TRUE IN <<converted_images[h[1]][h[2]]>>

\* Lines 200-205: the first image of the batch with the given id, as a
\* sequence of at most one element.
FindImage(images, image_id) ==
    LET hits == { i \in 1..Len(images) : images[i].id = image_id } IN
    IF hits = {} THEN <<>>
    ELSE <<images[CHOOSE i \in hits : \A j \in hits : i <= j]>>

DownloadSingleResponse(session_id, image_id) ==
    IF NoSession(session_id)
    THEN ErrorResponse(404, "No conversion session found")
    ELSE IF session_id \notin DOMAIN converted_images
    THEN ErrorResponse(500, "Download error: KeyError")
    ELSE LET found == FindImage(converted_images[session_id], image_id) IN
         IF found = <<>>
         THEN ErrorResponse(404, "Image not found")
         ELSE [status |-> 200,
               data |-> found[1].data,
               download_name |-> found[1].filename,
               mimetype |-> found[1].mimetype]

\* Variant of DownloadSingle that takes the binding out of the session
\* (session.pop) instead of reading it.
DownloadSingle_Pop(caller, image_id) ==
    /\ request' = [op |-> "download", caller |-> caller, files |-> <<>>,
                   format |-> Absent, image_id |-> image_id]
    /\ response' = DownloadSingleResponse(session[caller], image_id)
    /\ session' = [session EXCEPT ![caller] = None]
    /\ UNCHANGED <<converted_images, uuid_count, zip_log, threads>>

DownloadSingle(caller, image_id) ==
    /\ request' = [op |-> "download", caller |-> caller, files |-> <<>>,
                   format |-> Absent, image_id |-> image_id]
    /\ response' = DownloadSingleResponse(session[caller], image_id)
    /\ UNCHANGED <<converted_images, session, uuid_count, zip_log, threads>>

(***************************************************************************)
(* GET /download-zip (download_zip).                                       *)
(***************************************************************************)
\* Variant of ZipEntries in which a later member replaces an earlier one of
\* the same name.
ZipEntries_LastWins(images) ==
    LET kept == { i \in 1..Len(images) :
                    \A j \in (i+1)..Len(images) : images[j].filename # images[i].filename }
        Pick[i \in 0..Len(images)] ==
            IF i = 0 THEN <<>>
            ELSE IF i \in kept
                 THEN Append(Pick[i-1], [name |-> images[i].filename, data |-> images[i].data])
                 ELSE Pick[i-1]
    IN  Pick[Len(images)]

\* Lines 235-237: ZipFile.writestr appends one member per call, also when a
\* member of that name is already in the archive.
RECURSIVE ZipEntries(_)
ZipEntries(images) ==
    IF images = <<>> THEN <<>>
    ELSE <<[name |-> Head(images).filename, data |-> Head(images).data]>>
             \o ZipEntries(Tail(images))

\* Lines 242-243: the archive's name carries the time of the call.
Timestamps == {"20240101_000000", "20240101_000001"}

\* Variant of DownloadZipResponse without the test for an empty batch
\* (lines 229-230).
DownloadZipResponse_NoEmptyCheck(session_id, timestamp) ==
    IF NoSession(session_id)
    THEN ErrorResponse(404, "No conversion session found")
    ELSE [status |-> 200,
          entries |-> ZipEntries(converted_images[session_id]),
          download_name |-> <<"converted_images_", timestamp, ".zip">>,
          mimetype |-> "application/zip"]

DownloadZipResponse(session_id, timestamp) ==
    IF NoSession(session_id)
    THEN ErrorResponse(404, "No conversion session found")
    ELSE IF session_id \notin DOMAIN converted_images
    THEN ErrorResponse(500, "ZIP creation error: KeyError")
    ELSE IF converted_images[session_id] = <<>>
    THEN ErrorResponse(404, "No converted images found")
    ELSE [status |-> 200,
          entries |-> ZipEntries(converted_images[session_id]),
          download_name |-> <<"converted_images_", timestamp, ".zip">>,
          mimetype |-> "application/zip"]

\* zip_log remembers, per batch id, the first archive served for it (history
\* only; the program keeps no such record).
DownloadZip(caller, timestamp) ==
    LET resp == DownloadZipResponse(session[caller], timestamp) IN
    /\ request' = [op |-> "zip", caller |-> caller, files |-> <<>>,
                   format |-> Absent, image_id |-> 0]
    /\ response' = resp
    /\ zip_log' = IF resp.status = 200 /\ session[caller] \notin DOMAIN zip_log
                  THEN [b \in DOMAIN zip_log \cup {session[caller]} |->
                           IF b = session[caller] THEN resp ELSE zip_log[b]]
                  ELSE zip_log
    /\ UNCHANGED <<converted_images, session, uuid_count, threads>>

(***************************************************************************)
(* Process restart: the module-level store starts empty again (line 22).   *)
(* The callers' cookies stay valid when SESSION_SECRET is set and are      *)
(* rejected when the secret key is drawn anew (line 16).                   *)
(***************************************************************************)
Restart(secret_kept) ==
    /\ converted_images # <<>>
    /\ converted_images' = <<>>
    /\ session' = IF secret_kept THEN session ELSE [c \in Callers |-> None]
    /\ request' = [op |-> "restart", caller |-> None, files |-> <<>>,
                   format |-> Absent, image_id |-> 0]
    /\ response' = [status |-> 0]
    /\ threads' = <<>>
    /\ UNCHANGED <<uuid_count, zip_log>>

\* The model stops drawing uuids at MaxUuid: a request with n file parts
\* draws at most n + 1 of them.
UuidsLeft(n) == uuid_count + n <= MaxUuid

(***************************************************************************)
(* The specification.                                                      *)
(***************************************************************************)
Init ==
    /\ converted_images = <<>>
    /\ session = [c \in Callers |-> None]
    /\ uuid_count = 0
    /\ request = [op |-> "none", caller |-> None, files |-> <<>>,
                  format |-> Absent, image_id |-> 0]
    /\ response = [status |-> 0]
    /\ zip_log = <<>>
    /\ threads = <<>>

Next ==
    \/ \E n \in 0..MaxFiles :
          /\ UuidsLeft(n + 1)
          /\ \E caller \in Callers, files \in [1..n -> FileParts], format \in FormFormats :
                Convert(caller, files, format)
    \/ \E caller \in Callers, image_id \in 0..uuid_count :
          DownloadSingle(caller, image_id)
    \/ \E caller \in Callers, timestamp \in Timestamps :
          DownloadZip(caller, timestamp)
    \/ \E secret_kept \in BOOLEAN : Restart(secret_kept)

Spec == Init /\ [][Next]_vars

(***************************************************************************)
(* Single requests over the wide inputs: the first request of a fresh      *)
(* process is a POST /convert with any list of up to MaxFiles wide file    *)
(* parts and any wide format value.                                        *)
(***************************************************************************)
ConvertWide ==
    /\ request.op = "none"
    /\ \E n \in 1..MaxFiles :
          \E files \in [1..n -> WideFileParts], format \in WideFormats :
             Convert("c1", files, format)

NextWide == ConvertWide

SpecWide == Init /\ [][NextWide]_vars

(***************************************************************************)
(* Concurrent requests.  The server runs every request in a thread of its  *)
(* own; the source takes no lock, and the interpreter runs each operation  *)
(* on the dict and on a list (a lookup, a store of a key, an append) as    *)
(* one indivisible step.  A POST /convert is therefore three kinds of      *)
(* step: its entry up to the store of the empty batch (lines 119-141),     *)
(* one iteration of the loop per file (lines 143-180, whose only shared    *)
(* accesses are the uuid draw and the append of line 153), and its answer  *)
(* (lines 182-187).  session is the binding in the caller's cookie: line   *)
(* 137 writes the request's own session object, and the caller holds the   *)
(* new binding once the answer with its Set-Cookie header has arrived.     *)
(* threads maps the batch id of every request that has entered to its      *)
(* local variables.                                                        *)
(***************************************************************************)
\* The inputs of concurrent requests: the two images, a supported and an
\* unknown format.
ConcFileParts ==
    { file \in FileParts : AllowedParts[file] /\ file.data.kind = "image" }
ConcFormats == { FormValue(S_png), FormValue(<<"g","i","f">>) }

Running(b) == b \in DOMAIN threads /\ threads[b].pc = "loop"

\* The uuids the running requests may still draw: one per file to go.
RECURSIVE PendingDraws(_)
PendingDraws(n) ==
    IF n = 0 THEN 0
    ELSE (IF Running(n) THEN Len(threads[n].todo) ELSE 0) + PendingDraws(n - 1)

\* Variant of CookieAfter for a session kept on the server, where line 137
\* takes effect at once.
CookieAfter_Eager(binding, session_id, answered) == session_id

\* The caller's binding: line 137 reaches the caller with the answer.
CookieAfter(binding, session_id, answered) ==
    IF answered THEN session_id ELSE binding

\* Variant of LoopBatch for a batch id kept in a variable shared by the
\* requests: the batch created last.
LoopBatch_Latest(session_id) ==
    CHOOSE b \in DOMAIN converted_images : \A c \in DOMAIN converted_images : c <= b

\* Line 153: the loop appends to the batch of its own local session_id.
LoopBatch(session_id) == session_id

ThreadsWith(b, thread) ==
    [t \in DOMAIN threads \cup {b} |-> IF t = b THEN thread ELSE threads[t]]

\* Lines 119-141: the checks, the new batch id and the empty batch.
ConvertBegin(caller, files, format) ==
    IF RequestError(files, format) # ""
    THEN /\ request' = [op |-> "convert", caller |-> caller, files |-> files,
                        format |-> format, image_id |-> 0]
         /\ response' = ErrorResponse(400, RequestError(files, format))
         /\ UNCHANGED <<converted_images, session, uuid_count, zip_log, threads>>
    ELSE LET session_id == BatchId(caller) IN
         /\ uuid_count' = session_id
         /\ session' = [session EXCEPT ![caller] = CookieAfter(@, session_id, FALSE)]
         /\ converted_images' = StoreWithBatch(session_id, <<>>)
         /\ threads' = ThreadsWith(session_id,
                           [pc |-> "loop", caller |-> caller, files |-> files,
                            format |-> format, todo |-> files,
                            acc |-> EmptyAcc(session_id)])
         /\ UNCHANGED <<request, response, zip_log>>

\* Lines 143-180: one iteration of the loop of the request of batch b.
ConvertStep(b) ==
    /\ Running(b)
    /\ threads[b].todo # <<>>
    /\ LET thread == threads[b]
           batch == LoopBatch(b)
           acc == ProcessFile([thread.acc EXCEPT !.images = converted_images[batch],
                                                 !.uuid = uuid_count],
                              Head(thread.todo), OutputFormat(thread.format))
       IN  /\ converted_images' = StoreWithBatch(batch, acc.images)
           /\ uuid_count' = acc.uuid
           /\ threads' = ThreadsWith(b, [thread EXCEPT !.todo = Tail(@),
                                                        !.acc = [acc EXCEPT !.images = <<>>]])
    /\ UNCHANGED <<session, request, response, zip_log>>

\* Lines 182-187: the answer, which carries the new binding to the caller.
ConvertEnd(b) ==
    /\ Running(b)
    /\ threads[b].todo = <<>>
    /\ LET thread == threads[b] IN
       /\ request' = [op |-> "convert", caller |-> thread.caller, files |-> thread.files,
                      format |-> thread.format, image_id |-> 0]
       /\ response' = [status |-> 200,
                       session_id |-> b,
                       total_files |-> Len(thread.files),
                       successful_conversions |-> thread.acc.successful_conversions,
                       results |-> thread.acc.results]
       /\ session' = [session EXCEPT ![thread.caller] = CookieAfter(@, b, TRUE)]
       /\ threads' = ThreadsWith(b, [thread EXCEPT !.pc = "done", !.acc = EmptyAcc(b)])
    /\ UNCHANGED <<converted_images, uuid_count, zip_log>>

NextConc ==
    \/ \E n \in 0..MaxFiles :
          /\ uuid_count + PendingDraws(uuid_count) + n + 1 <= MaxUuid
          /\ \E caller \in Callers, files \in [1..n -> ConcFileParts],
                format \in ConcFormats :
                ConvertBegin(caller, files, format)
    \/ \E b \in DOMAIN threads : ConvertStep(b)
    \/ \E b \in DOMAIN threads : ConvertEnd(b)
    \/ \E caller \in Callers, image_id \in 0..uuid_count :
          DownloadSingle(caller, image_id)
    \/ \E caller \in Callers, timestamp \in Timestamps :
          DownloadZip(caller, timestamp)

SpecConc == Init /\ [][NextConc]_vars

(***************************************************************************)
(* Vocabulary of the properties.  An item is an uploaded file part with a  *)
(* non-empty filename; it fails when the allow-list rejects it or the      *)
(* converter reports a failure.                                            *)
(***************************************************************************)
HasFilename(file) == file.filename # EmptyStr
Items(files) == SelectSeq(files, HasFilename)

ItemFails(file, output_format) ==
    \/ ~allowed_file(file.filename, file.content_type)
    \/ ~convert_single_image(file.data, output_format, file.filename).success

\* The format field names a supported format, whatever its letter case (a
\* form without the field asks for JPEG).
FormatSupported(format) ==
    ~format.present \/ \E f \in SUPPORTED_FORMATS : Lower(f) = Lower(format.value)

WellFormed(files, format) == Len(files) > 0 /\ FormatSupported(format)

ConvertAnswered == request.op = "convert" /\ WellFormed(request.files, request.format)
ConvertSucceeded == request.op = "convert" /\ response.status = 200

\* A stored image without its id.
Content(img) == [filename |-> img.filename, data |-> img.data, mimetype |-> img.mimetype]
Contents(images) == [i \in 1..Len(images) |-> Content(images[i])]

(***************************************************************************)
(* C1: a well-formed POST /convert with N items of which K fail answers    *)
(* successful_conversions = N - K and exactly N result records, the i-th   *)
(* record describing the i-th item in upload order.                        *)
(***************************************************************************)
C1_CountsAndOrder ==
    ConvertAnswered =>
        LET fmt == OutputFormat(request.format)
            items == Items(request.files)
            K == Cardinality({ i \in 1..Len(items) : ItemFails(items[i], fmt) })
        IN  /\ response.status = 200
            /\ response.successful_conversions = Len(items) - K
            /\ Len(response.results) = Len(items)
            /\ \A i \in 1..Len(items) :
                  /\ response.results[i].original_filename = items[i].filename
                  /\ response.results[i].success = ~ItemFails(items[i], fmt)

\* A batch of two items, the first failing and the second succeeding.
C1_Witness ==
    /\ ConvertSucceeded
    /\ Len(Items(request.files)) = 2
    /\ Len(response.results) = 2
    /\ ~response.results[1].success
    /\ response.results[2].success
    /\ response.successful_conversions = 1

(***************************************************************************)
(* C2: a failing item never aborts the batch: the request still answers    *)
(* 200 with its result list, and the images stored for the other items are *)
(* those that the same request without the failing items would have        *)
(* stored, each item's record being that of its own conversion alone.      *)
(***************************************************************************)
Succeeds(file) == ~ItemFails(file, OutputFormat(request.format))

C2_FailureIsolated ==
    ConvertAnswered =>
        LET fmt == OutputFormat(request.format)
            items == Items(request.files)
            good == SelectSeq(items, Succeeds)
            alone == ProcessFiles(EmptyAcc(0), good, fmt)
        IN  /\ response.status = 200
            /\ response.session_id \in DOMAIN converted_images
            /\ Contents(converted_images[response.session_id]) = Contents(alone.images)
            /\ \A i \in 1..Len(items) :
                  Succeeds(items[i]) =>
                     /\ i <= Len(response.results)
                     /\ response.results[i].success
                     /\ response.results[i].converted_filename =
                           convert_single_image(items[i].data, fmt, items[i].filename).filename

\* A failing item followed by a succeeding one, whose image is stored.
C2_Witness ==
    /\ ConvertSucceeded
    /\ Len(Items(request.files)) = 2
    /\ ItemFails(Items(request.files)[1], OutputFormat(request.format))
    /\ ~ItemFails(Items(request.files)[2], OutputFormat(request.format))
    /\ Len(converted_images[response.session_id]) = 1

(***************************************************************************)
(* C3: GET /download/<id> and GET /download-zip, whether they answer 200   *)
(* or 404, leave the store and every session binding as they were.         *)
(***************************************************************************)
C3_RetrievalReadOnly ==
    [][request'.op \in {"download", "zip"} =>
          /\ converted_images' = converted_images
          /\ session' = session]_vars

\* A download that found its image in a store holding a batch.
C3_Witness ==
    /\ request.op = "download"
    /\ response.status = 200
    /\ session[request.caller] \in DOMAIN converted_images

(***************************************************************************)
(* C4: a well-formed POST /convert creates its batch under an id that was  *)
(* no key of the store, binds the caller's session to that id and leaves   *)
(* every batch that was in the store in place with its images unchanged.   *)
(***************************************************************************)
C4_FreshBatchKeepsOthers ==
    [][(request'.op = "convert" /\ WellFormed(request'.files, request'.format)) =>
          /\ response'.status = 200
          /\ response'.session_id \notin DOMAIN converted_images
          /\ response'.session_id \in DOMAIN converted_images'
          /\ session'[request'.caller] = response'.session_id
          /\ \A c \in Callers \ {request'.caller} : session'[c] = session[c]
          /\ \A b \in DOMAIN converted_images :
                /\ b \in DOMAIN converted_images'
                /\ converted_images'[b] = converted_images[b]]_vars

\* A convert by a caller whose earlier, non-empty batch is still stored.
C4_Witness ==
    /\ ConvertSucceeded
    /\ \E b \in DOMAIN converted_images :
          /\ b # response.session_id
          /\ converted_images[b] # <<>>
    /\ session[request.caller] = response.session_id

(***************************************************************************)
(* C5: GET /download/<id> serves an image only out of the batch bound to   *)
(* the caller's session; the id of an image stored in another batch only   *)
(* is answered 404.                                                        *)
(***************************************************************************)
InBatch(b, image_id) ==
    /\ b \in DOMAIN converted_images
    /\ \E i \in 1..Len(converted_images[b]) : converted_images[b][i].id = image_id

C5_OnlyBoundBatch ==
    request.op = "download" =>
        LET bound == session[request.caller] IN
        /\ ~InBatch(bound, request.image_id) => response.status = 404
        /\ response.status = 200 =>
              \E i \in 1..Len(converted_images[bound]) :
                 /\ converted_images[bound][i].id = request.image_id
                 /\ converted_images[bound][i].data = response.data
                 /\ converted_images[bound][i].filename = response.download_name

\* The id asked for is that of an image of a batch other than the caller's.
C5_Witness ==
    /\ request.op = "download"
    /\ response.status = 404
    /\ session[request.caller] \in DOMAIN converted_images
    /\ \E b \in DOMAIN converted_images :
          b # session[request.caller] /\ InBatch(b, request.image_id)

(***************************************************************************)
(* C6: both download routes answer 404 when the caller's session has no    *)
(* binding and when it is bound to a batch id the store does not hold.     *)
(***************************************************************************)
C6_NoBatchIs404 ==
    (/\ request.op \in {"download", "zip"}
     /\ \/ session[request.caller] = None
        \/ session[request.caller] \notin DOMAIN converted_images)
    => response.status = 404

\* A cookie that outlived the store: bound, but to a batch no longer held.
C6_Witness ==
    /\ request.op = "zip"
    /\ session[request.caller] # None
    /\ session[request.caller] \notin DOMAIN converted_images
    /\ response.status = 404

(***************************************************************************)
(* C7: every archive GET /download-zip serves for a batch id has the       *)
(* members (names and bytes, in order) of the first archive served for     *)
(* that id, whatever happened in between; the download name may differ.    *)
(***************************************************************************)
C7_ZipIdempotent ==
    (request.op = "zip" /\ response.status = 200) =>
        /\ session[request.caller] \in DOMAIN zip_log
        /\ response.entries = zip_log[session[request.caller]].entries

\* A later archive of the same batch (its name differs from the first one's),
\* served after another batch entered the store.
C7_Witness ==
    /\ request.op = "zip"
    /\ response.status = 200
    /\ response.download_name # zip_log[session[request.caller]].download_name
    /\ \E b \in DOMAIN converted_images : b > session[request.caller]

(***************************************************************************)
(* C8 as stated: the archive has as many members as the batch has distinct *)
(* stored filenames, members of the same name collapsing into one.         *)
(***************************************************************************)
Filenames(images) == { images[i].filename : i \in 1..Len(images) }

C8_Original ==
    (request.op = "zip" /\ response.status = 200) =>
        Len(response.entries) =
            Cardinality(Filenames(converted_images[session[request.caller]]))

(***************************************************************************)
(* C8, amended: the archive of a batch with M images has exactly M         *)
(* members, the i-th holding the stored filename and bytes of the i-th     *)
(* image, also when stored filenames repeat: members of the same name are  *)
(* all kept, none replaces another.                                        *)
(***************************************************************************)
C8_OneMemberPerImage ==
    (request.op = "zip" /\ response.status = 200) =>
        LET images == converted_images[session[request.caller]] IN
        /\ Len(response.entries) = Len(images)
        /\ \A i \in 1..Len(images) :
              /\ response.entries[i].name = images[i].filename
              /\ response.entries[i].data = images[i].data

\* An archive of a batch of two images stored under one filename.
C8_Witness ==
    /\ request.op = "zip"
    /\ response.status = 200
    /\ Len(response.entries) = 2
    /\ response.entries[1].name = response.entries[2].name
    /\ response.entries[1].data # response.entries[2].data

(***************************************************************************)
(* C9: a POST /convert without a file part, or with a format outside       *)
(* JPEG, JPG, PNG, WEBP, AVIF (letter case ignored), is answered 400; it   *)
(* draws no id, creates no batch and leaves store and sessions unchanged.  *)
(***************************************************************************)
C9_MalformedIs400 ==
    [][(request'.op = "convert" /\ ~WellFormed(request'.files, request'.format)) =>
          /\ response'.status = 400
          /\ converted_images' = converted_images
          /\ session' = session
          /\ uuid_count' = uuid_count]_vars

\* An unsupported format, sent with a convertible file by a bound caller.
C9_Witness ==
    /\ request.op = "convert"
    /\ response.status = 400
    /\ ~FormatSupported(request.format)
    /\ \E i \in 1..Len(request.files) : ~ItemFails(request.files[i], S_JPEG)
    /\ session[request.caller] \in DOMAIN converted_images

(***************************************************************************)
(* C10: a well-formed POST /convert whose items all fail answers 200 with  *)
(* successful_conversions = 0 and binds the session to a new, empty batch; *)
(* GET /download-zip of a session bound to an empty batch answers 404.     *)
(***************************************************************************)
AllItemsFail(files, format) ==
    /\ Items(files) # <<>>
    /\ \A i \in 1..Len(Items(files)) : ItemFails(Items(files)[i], OutputFormat(format))

C10_AllFailed ==
    /\ (ConvertAnswered /\ AllItemsFail(request.files, request.format)) =>
          /\ response.status = 200
          /\ response.successful_conversions = 0
          /\ session[request.caller] = response.session_id
          /\ response.session_id \in DOMAIN converted_images
          /\ converted_images[response.session_id] = <<>>
    /\ (/\ request.op = "zip"
        /\ session[request.caller] \in DOMAIN converted_images
        /\ converted_images[session[request.caller]] = <<>>)
       => response.status = 404

\* The archive asked for by a session bound to an empty batch.
C10_Witness ==
    /\ request.op = "zip"
    /\ response.status = 404
    /\ session[request.caller] \in DOMAIN converted_images
    /\ converted_images[session[request.caller]] = <<>>

(***************************************************************************)
(* C11: a POST /convert that carries file parts, all of them with an empty *)
(* filename, is answered 400, creates no batch and leaves the session      *)
(* binding as it was.                                                      *)
(***************************************************************************)
OnlyEmptyNames(files) == Len(files) > 0 /\ Items(files) = <<>>

C11_EmptyNamesAre400 ==
    [][(request'.op = "convert" /\ OnlyEmptyNames(request'.files)) =>
          /\ response'.status = 400
          /\ DOMAIN converted_images' = DOMAIN converted_images
          /\ session' = session]_vars

(***************************************************************************)
(* C16: no convert or retrieval request changes the artifact list of a     *)
(* batch whose POST /convert has returned, or removes that batch from the  *)
(* store: the set of batch ids only grows.  (A restart of the process is   *)
(* not a request.)                                                         *)
(***************************************************************************)
InFlight(b) == b \in DOMAIN threads /\ threads[b].pc # "done"
Returned(b) == b \in DOMAIN converted_images /\ ~InFlight(b)

C16_BatchesImmutable ==
    [][request'.op # "restart" =>
          /\ DOMAIN converted_images \subseteq DOMAIN converted_images'
          /\ \A b \in DOMAIN converted_images :
                Returned(b) => converted_images'[b] = converted_images[b]]_vars

\* An earlier, non-empty batch still in the store after its caller converted
\* again and fetched the archive of the later batch.
C16_Witness ==
    /\ request.op = "zip"
    /\ response.status = 200
    /\ \E b \in DOMAIN converted_images :
          /\ b < session[request.caller]
          /\ converted_images[b] # <<>>
          /\ \A c \in Callers : session[c] # b

(***************************************************************************)
(* C17: a well-formed POST /convert leaves as many artifacts in the bound  *)
(* batch as it reports successful_conversions and success records; a       *)
(* GET /download/{download_id} of any of its success records by the same   *)
(* session is answered 200 with that record's converted_filename as        *)
(* download name and the bytes and mimetype of that item's conversion.     *)
(***************************************************************************)
SuccessIndices(results) == { i \in 1..Len(results) : results[i].success }

\* The answer C17 expects for the i-th item of the last convert request.
ExpectedDownload(i) ==
    LET item == Items(request.files)[i]
        conv == convert_single_image(item.data, OutputFormat(request.format), item.filename)
    IN  [status |-> 200,
         data |-> conv.data,
         download_name |-> response.results[i].converted_filename,
         mimetype |-> conv.mimetype]

C17_RecordsAreDownloadable ==
    [][/\ ConvertSucceeded' =>
            /\ session'[request'.caller] = response'.session_id
            /\ Len(converted_images'[response'.session_id])
                  = response'.successful_conversions
            /\ Cardinality(SuccessIndices(response'.results))
                  = response'.successful_conversions
       /\ (/\ ConvertSucceeded
           /\ request'.op = "download"
           /\ request'.caller = request.caller) =>
             \A i \in SuccessIndices(response.results) :
                request'.image_id = response.results[i].download_id
                   => response' = ExpectedDownload(i)
       /\ (/\ request.op = "download"
           /\ response.status = 200
           /\ request'.op = "download"
           /\ request'.caller = request.caller
           /\ request'.image_id = request.image_id) =>
             response' = response]_vars

\* The second of two artifacts of a batch, downloaded by the session that
\* converted them.
C17_Witness ==
    /\ request.op = "download"
    /\ response.status = 200
    /\ session[request.caller] \in DOMAIN converted_images
    /\ Len(converted_images[session[request.caller]]) = 2
    /\ converted_images[session[request.caller]][2].id = request.image_id
    /\ response.data = converted_images[session[request.caller]][2].data

(***************************************************************************)
(* C18: in every reachable state the artifact ids of a batch are pairwise  *)
(* distinct, so a lookup by id matches at most one artifact of the bound   *)
(* batch.                                                                  *)
(***************************************************************************)
C18_IdsDistinctInBatch ==
    \A b \in DOMAIN converted_images :
        /\ \A i, j \in 1..Len(converted_images[b]) :
              converted_images[b][i].id = converted_images[b][j].id => i = j
        /\ \A image_id \in 0..uuid_count :
              Cardinality({ i \in 1..Len(converted_images[b]) :
                              converted_images[b][i].id = image_id }) <= 1

\* A batch of two artifacts.
C18_Witness ==
    \E b \in DOMAIN converted_images :
        /\ Len(converted_images[b]) = 2
        /\ converted_images[b][1].id # converted_images[b][2].id

(***************************************************************************)
(* C12: for every supported target format B and every item converted       *)
(* successfully, the artifact's mimetype is "image/" and the lowercase     *)
(* canonical name of B (jpeg for both JPEG and JPG) and its filename ends  *)
(* in "_converted" and the extension of B (.jpg, .jpg, .png, .webp,        *)
(* .avif); a request naming any other format is answered 400, so the       *)
(* converter never meets a name outside the format map.                    *)
(***************************************************************************)
EndsWith(s, suffix) ==
    /\ Len(s) >= Len(suffix)
    /\ SubSeq(s, Len(s) - Len(suffix) + 1, Len(s)) = suffix

\* The supported format a well-formed request names.
RequestedFormat ==
    CHOOSE B \in SUPPORTED_FORMATS :
        Lower(B) = Lower(IF request.format.present THEN request.format.value ELSE S_JPEG)

CanonicalName(B) == IF B \in {S_JPEG, S_JPG} THEN S_jpeg ELSE Lower(B)
MapExtension(B) == <<".">> \o (IF B \in {S_JPEG, S_JPG} THEN S_jpg ELSE Lower(B))

\* The artifacts of the new batch that a success record names.
ArtifactsOf(record) ==
    { a \in Range(converted_images[response.session_id]) : a.id = record.download_id }

C12_MimeAndExtension ==
    /\ ConvertAnswered =>
          \A i \in SuccessIndices(response.results) :
             /\ ArtifactsOf(response.results[i]) # {}
             /\ \A a \in ArtifactsOf(response.results[i]) :
                   /\ a.mimetype = S_image \o CanonicalName(RequestedFormat)
                   /\ a.filename = response.results[i].converted_filename
                   /\ EndsWith(a.filename, S_converted \o MapExtension(RequestedFormat))
    /\ (request.op = "convert" /\ ~FormatSupported(request.format)) =>
          response.status = 400
    /\ \A B \in SUPPORTED_FORMATS :
          get_file_extension(B) = MapExtension(B)

\* An image converted on a request for "jpg" in lower case.
C12_Witness ==
    /\ ConvertSucceeded
    /\ request.format = FormValue(S_jpg)
    /\ \E a \in Range(converted_images[response.session_id]) :
          /\ a.mimetype = S_image \o S_jpeg
          /\ EndsWith(a.filename, S_converted \o <<".">> \o S_jpg)

(***************************************************************************)
(* C13: for a JPEG or JPG target and a source of mode RGBA, LA or P the    *)
(* encoded image is the source over opaque white under the source's alpha: *)
(* of the same size, without alpha, white wherever the source is fully     *)
(* transparent and the source's colour wherever it is opaque; in every     *)
(* other case the source is encoded as it is.                              *)
(***************************************************************************)
OverWhite(source, encoded) ==
    /\ encoded.mode = "RGB"
    /\ Len(encoded.px) = Len(source.px)
    /\ \A k \in 1..Len(source.px) :
          /\ encoded.px[k].a = Opaque
          /\ source.px[k].a = 0 => encoded.px[k].c = White
          /\ source.px[k].a = Opaque => encoded.px[k].c = source.px[k].c

EncodedAsClaimed(source, B, encoded) ==
    IF B \in {S_JPEG, S_JPG} /\ source.mode \in {"RGBA", "LA", "P"}
    THEN OverWhite(source, encoded)
    ELSE encoded = source

C13_TransparentIsWhite ==
    ConvertAnswered =>
        \A i \in 1..Len(Items(request.files)) :
           LET item == Items(request.files)[i] IN
           response.results[i].success =>
              \A a \in ArtifactsOf(response.results[i]) :
                 EncodedAsClaimed(item.data.image, RequestedFormat, a.data.image)

(***************************************************************************)
(* C19: an item reaches the converter only if its filename's extension is  *)
(* in the allowed set and its declared content type is in the allowed MIME *)
(* set; an item failing either test gets a failure record with its         *)
(* original filename and stores no artifact.                               *)
(***************************************************************************)
ExtensionAllowed(filename) ==
    \E ext \in ALLOWED_EXTENSIONS : EndsWith(Lower(filename), <<".">> \o ext)

OnAllowList(file) ==
    ExtensionAllowed(file.filename) /\ file.content_type \in ALLOWED_MIME_TYPES

\* The filenames the loop of the last convert request called the converter
\* with, in order.
ConverterCalls ==
    ProcessFiles(EmptyAcc(0), request.files, OutputFormat(request.format)).calls

Filename(file) == file.filename

C19_AllowListGuardsConverter ==
    ConvertAnswered =>
        LET items == Items(request.files)
            listed == SelectSeq(items, OnAllowList)
        IN  /\ ConverterCalls = [k \in 1..Len(listed) |-> Filename(listed[k])]
            /\ Len(converted_images[response.session_id])
                  = Cardinality(SuccessIndices(response.results))
            /\ \A i \in 1..Len(items) :
                  ~OnAllowList(items[i]) =>
                     response.results[i] = FailureRecord(items[i].filename, InvalidType)

\* An image with an allowed extension and a disallowed content type,
\* rejected beside an item that is converted.
C19_Witness ==
    /\ ConvertSucceeded
    /\ response.successful_conversions = 1
    /\ \E i \in 1..Len(Items(request.files)) :
          LET item == Items(request.files)[i] IN
          /\ item.data.kind = "image"
          /\ ExtensionAllowed(item.filename)
          /\ item.content_type \notin ALLOWED_MIME_TYPES
          /\ ~response.results[i].success

(***************************************************************************)
(* C14: under every interleaving of the steps of POST /convert requests    *)
(* with retrievals, no caller's binding names a batch whose request has    *)
(* not answered yet, and a retrieval is answered from the whole batch its  *)
(* caller is bound to: the archive holds every artifact the batch's        *)
(* request produces, and a single download misses no artifact of it.       *)
(***************************************************************************)
IsPrefix(s, t) == Len(s) <= Len(t) /\ SubSeq(t, 1, Len(s)) = s

\* What the request of batch b stores when it runs alone.
ExpectedBatch(b) ==
    Contents(ProcessFiles(EmptyAcc(0), threads[b].files,
                          OutputFormat(threads[b].format)).images)

Answered(b) == b \in DOMAIN threads /\ threads[b].pc = "done"

Retrieved == request.op \in {"download", "zip"}
BoundBatch == session[request.caller]

C14_NoPartialBatch ==
    /\ \A c \in Callers : session[c] # None => Answered(session[c])
    /\ (Retrieved /\ BoundBatch # None) =>
          Contents(converted_images[BoundBatch]) = ExpectedBatch(BoundBatch)
    /\ (request.op = "zip" /\ BoundBatch # None) =>
          IF ExpectedBatch(BoundBatch) = <<>>
          THEN response.status = 404
          ELSE /\ response.status = 200
               /\ Len(response.entries) = Len(ExpectedBatch(BoundBatch))
               /\ \A i \in 1..Len(response.entries) :
                     /\ response.entries[i].name = ExpectedBatch(BoundBatch)[i].filename
                     /\ response.entries[i].data = ExpectedBatch(BoundBatch)[i].data
    /\ (request.op = "download" /\ BoundBatch # None) =>
          IF \E img \in Range(converted_images[BoundBatch]) : img.id = request.image_id
          THEN /\ response.status = 200
               /\ \E img \in Range(ExpectedBatch(BoundBatch)) :
                     /\ img.data = response.data
                     /\ img.filename = response.download_name
          ELSE response.status = 404

\* The archive of the caller's earlier batch, served while a later request
\* of the same caller has entered and has not stored its artifact yet.
C14_Witness ==
    /\ request.op = "zip"
    /\ response.status = 200
    /\ \E b \in DOMAIN threads :
          /\ Running(b)
          /\ threads[b].caller = request.caller
          /\ threads[b].todo # <<>>
          /\ Len(converted_images[b]) < Len(ExpectedBatch(b))
          /\ BoundBatch # b

====
